---- MODULE Spec2Model ----
(***************************************************************************)
(* uniauth_saml2_idp/models.py as a state machine: the ServiceProvider and *)
(* MetadataStore tables with their validate() methods and the snapshots    *)
(* handed to pysaml2, and the PersistentId table with its two unique       *)
(* constraints.                                                            *)
(*                                                                         *)
(* validate() runs on the instance its caller loaded earlier: the load is   *)
(* one action, and validate() (the checks on the instance, then save() of  *)
(* every field of the instance over the persisted row) is another, so      *)
(* that writes of the administrator fall between the two.  What validate() *)
(* asks of the outside world (is the entity id in the loaded metadata,     *)
(* what does the HTTP request answer, do the XML files parse) is an input  *)
(* of the action.                                                          *)
(***************************************************************************)
EXTENDS Integers, Sequences, FiniteSets, TLC

\* ---------------------------------------------------------------- bounds
MaxSP == 1
MaxMD == 1

SpIds == 1..MaxSP
MdIds == 1..MaxMD

\* ------------------------------------------------------------ JSON texts
\* The texts an administrator types into attribute_mapping and kwargs.
MappingOk == "{\"email\": \"email\"}"
\* "Dict must do not have a trailing ',' at last element" (models.py:116)
MappingTrailingComma == "{\"email\": \"email\",}"
KwargsDefault == "{}"
KwargsSsl == "{\"disable_ssl_certificate_validation\": true}"
KwargsMalformed == "{\"disable_ssl_certificate_validation\": true"
\* JSON that parses, to a list and not to an object.
KwargsList == "[1]"

\* json.loads on the texts above: ok is FALSE when it raises; isdict tells a
\* JSON object from any other JSON value; val is the parsed value.
json_loads(text) ==
    CASE text = MappingOk -> [ok |-> TRUE, isdict |-> TRUE, val |-> [email |-> "email"]]
      [] text = KwargsDefault -> [ok |-> TRUE, isdict |-> TRUE, val |-> <<>>]
      [] text = KwargsSsl ->
            [ok |-> TRUE, isdict |-> TRUE,
             val |-> [disable_ssl_certificate_validation |-> TRUE]]
      [] text = KwargsList -> [ok |-> TRUE, isdict |-> FALSE, val |-> <<1>>]
      [] text \in {MappingTrailingComma, KwargsMalformed} ->
            [ok |-> FALSE, isdict |-> FALSE, val |-> <<>>]

\* ------------------------------------------------------------ processors
DEFAULT_PROCESSOR == "uniauth_saml2_idp.processors.base.BaseProcessor"
UnknownProcessor == "uniauth_saml2_idp.processors.nosuch.Processor"
Processors == {DEFAULT_PROCESSOR, UnknownProcessor}

\* import_string(name) succeeds exactly for an importable dotted path.
import_string_ok(name) == name = DEFAULT_PROCESSOR

VARIABLES
    sp,         \* ServiceProvider table: entity id -> row
    md,         \* MetadataStore table: pk -> row
    s3,         \* settings.DEFAULT_FILE_STORAGE is the S3Boto3Storage backend
    pid,        \* PersistentId table: set of rows
    req,        \* in-flight pseudonym requests
    issued,     \* history: every (user, sp, identifier) a request returned
    spFailed,   \* history: SPs whose most recent validate() had a failing check
    valid_for,  \* settings.SAML_IDP_USER_AGREEMENT_VALID_FOR
    now,        \* timezone.now(), in hours
    agreements, \* AgreementRecord table: sequence of rows
    loaded,     \* the instances the callers of validate() hold
    lastCall    \* the most recent call and what it gave back to its caller

vars == <<sp, md, s3, pid, req, issued, spFailed, valid_for, now, agreements,
          loaded, lastCall>>

NoError == ""
\* The messages validate() raises (the exception text it formats in is left out).
ProcessorError == "No module named"
MappingError == "Attribute Mapping is not a valid JSON format"
NotInMetadataError == "is not present in any Metadata"
UnreachableError == "Endpoint is not reachable"
InvalidXmlError == "found an invalid XML"
EmptySourceError == "Empty file or url for \"local\" type. Metadata is not valid"
KwargsError == "kwargs JSON format error"
\* A call: what was called, on which row, with which arguments or outside
\* answers, and what it raised or returned.
CallWith(op, id, args, raised, error, value) ==
    [op |-> op, id |-> id, args |-> args, raised |-> raised, error |-> error,
     value |-> value]
Call(op, id, raised, error, value) == CallWith(op, id, <<>>, raised, error, value)

\* settings.SAML_IDP_USER_AGREEMENT_VALID_FOR: not defined in the project's
\* settings module, defined as None, or a number of hours.
Unset == [kind |-> "unset", hours |-> 0]
None == [kind |-> "None", hours |-> 0]
Hours(h) == [kind |-> "hours", hours |-> h]

\* ======================================================= ServiceProvider
MappingTexts == {MappingOk, MappingTrailingComma}

\* A new row: is_valid and is_active take their defaults.
ServiceProvider_new(processor, mapping) ==
    [attribute_processor |-> processor,
     attribute_mapping |-> mapping,
     is_valid |-> FALSE,
     is_active |-> FALSE]

\* validate(), first check: the processor class is importable.
sp_check_processor(st) ==
    IF import_string_ok(st.self.attribute_processor)
    THEN st
    ELSE [st EXCEPT !.error = ProcessorError,
                    !.self.is_active = FALSE]

\* validate(), second check: the attribute mapping parses.
sp_check_mapping(st) ==
    IF json_loads(st.self.attribute_mapping).ok
    THEN st
    ELSE [st EXCEPT !.error = MappingError,
                    !.self.is_active = FALSE]

\* validate(), third check: the entity id is in the loaded metadata.
sp_check_metadata(st, inMetadata) ==
    IF inMetadata
    THEN st
    ELSE [st EXCEPT !.error = NotInMetadataError,
                    !.self.is_active = FALSE]

\* Mutant: a failing validate() saves is_valid as it was.
sp_finish_mutant_keeps_valid(st) ==
    IF st.error # NoError
    THEN st
    ELSE [st EXCEPT !.self.is_valid = TRUE]

\* Mutant: a passing validate() saves is_valid as it was.
sp_finish_mutant_forgets_valid(st) ==
    IF st.error # NoError
    THEN [st EXCEPT !.self.is_valid = st.self.is_active]
    ELSE st

\* Mutant: a passing validate() saves is_active as is_valid was.
sp_finish_mutant_active_from_valid(st) ==
    IF st.error # NoError
    THEN [st EXCEPT !.self.is_valid = st.self.is_active]
    ELSE [st EXCEPT !.self.is_valid = TRUE, !.self.is_active = st.self.is_valid]

\* validate(), after the checks: what is saved, and what is raised.
sp_finish(st) ==
    IF st.error # NoError
    THEN [st EXCEPT !.self.is_valid = st.self.is_active]
    ELSE [st EXCEPT !.self.is_valid = TRUE]

\* Mutant: the message of the first failing check is the one raised.
ServiceProvider_validate_mutant_first_failure(self, inMetadata) ==
    sp_finish(
        sp_check_processor(
            sp_check_mapping(
                sp_check_metadata([self |-> self, error |-> NoError], inMetadata))))

\* ServiceProvider.validate(): the row it saves and the error it raises
\* (NoError: it returns is_valid).
ServiceProvider_validate(self, inMetadata) ==
    sp_finish(
        sp_check_metadata(
            sp_check_mapping(
                sp_check_processor([self |-> self, error |-> NoError])),
            inMetadata))

\* The three checks of ServiceProvider.validate(), as the claim names them.
sp_checks_pass(self, inMetadata) ==
    /\ import_string_ok(self.attribute_processor)
    /\ json_loads(self.attribute_mapping).ok
    /\ inMetadata

\* as_idpspconfig_dict_element(): raised when json.loads raises.
as_idpspconfig_dict_element(self) ==
    LET m == json_loads(self.attribute_mapping) IN
    IF ~m.ok
    THEN [raised |-> TRUE, value |-> <<>>]
    ELSE [raised |-> FALSE,
          value |-> [processor |-> self.attribute_processor,
                     attribute_mapping |-> m.val]]

\* The rows cls.objects.filter(is_active=True) yields.
sp_filter_active(table) == {e \in DOMAIN table : table[e].is_active}

\* as_idpspconfig_dict(): one failing element aborts the loop.
as_idpspconfig_dict(table) ==
    LET ids == sp_filter_active(table) IN
    IF \E e \in ids : as_idpspconfig_dict_element(table[e]).raised
    THEN [raised |-> TRUE, value |-> <<>>]
    ELSE [raised |-> FALSE,
          value |-> [e \in ids |-> as_idpspconfig_dict_element(table[e]).value]]

\* ------------------------------------------------- ServiceProvider actions
\* An administrator adds a service provider.
SPCreate(e, processor, mapping) ==
    /\ e \notin DOMAIN sp
    /\ sp' = [x \in DOMAIN sp \cup {e} |->
                IF x = e THEN ServiceProvider_new(processor, mapping) ELSE sp[x]]
    /\ lastCall' = Call("sp_admin", 0, FALSE, NoError, <<>>)
    /\ UNCHANGED <<md, s3, valid_for, now, agreements, loaded, pid, req, issued, spFailed>>

\* An administrator changes the processor, the mapping or is_active.
\* is_valid is written by validate() only.
SPEditProcessor(e, processor) ==
    /\ e \in DOMAIN sp
    /\ sp[e].attribute_processor # processor
    /\ sp' = [sp EXCEPT ![e].attribute_processor = processor]
    /\ lastCall' = Call("sp_admin", 0, FALSE, NoError, <<>>)
    /\ UNCHANGED <<md, s3, valid_for, now, agreements, loaded, pid, req, issued, spFailed>>

SPEditMapping(e, mapping) ==
    /\ e \in DOMAIN sp
    /\ sp[e].attribute_mapping # mapping
    /\ sp' = [sp EXCEPT ![e].attribute_mapping = mapping]
    /\ lastCall' = Call("sp_admin", 0, FALSE, NoError, <<>>)
    /\ UNCHANGED <<md, s3, valid_for, now, agreements, loaded, pid, req, issued, spFailed>>

SPSetActive(e, active) ==
    /\ e \in DOMAIN sp
    /\ sp[e].is_active # active
    /\ sp' = [sp EXCEPT ![e].is_active = active]
    /\ lastCall' = Call("sp_admin", 0, FALSE, NoError, <<>>)
    /\ UNCHANGED <<md, s3, valid_for, now, agreements, loaded, pid, req, issued, spFailed>>

\* The callers of validate().  Each holds at most one instance.
Validators == {"v1", "v2"}

\* What validate() gives back: is_valid when it returns, nothing when it raises.
validate_value(r) == IF r.error = NoError THEN r.self.is_valid ELSE <<>>

\* Caller v loads row e.
SPLoad(v, e) ==
    /\ v \notin DOMAIN loaded
    /\ e \in DOMAIN sp
    /\ loaded' = [x \in DOMAIN loaded \cup {v} |->
                    IF x = v THEN [kind |-> "sp", id |-> e, self |-> sp[e]]
                    ELSE loaded[x]]
    /\ UNCHANGED <<sp, md, s3, valid_for, now, agreements, pid, req, issued, spFailed,
                   lastCall>>

\* validate() on the instance v holds: the checks, then save() of the whole
\* instance over the persisted row.
SPValidate(v, inMetadata) ==
    /\ v \in DOMAIN loaded
    /\ loaded[v].kind = "sp"
    /\ LET e == loaded[v].id
           r == ServiceProvider_validate(loaded[v].self, inMetadata)
       IN  /\ sp' = [sp EXCEPT ![e] = r.self]
           /\ lastCall' = CallWith("sp_validate", e, <<inMetadata>>,
                                   r.error # NoError, r.error, validate_value(r))
           /\ spFailed' = IF sp_checks_pass(loaded[v].self, inMetadata)
                          THEN spFailed \ {e} ELSE spFailed \cup {e}
    /\ loaded' = [x \in DOMAIN loaded \ {v} |-> loaded[x]]
    /\ UNCHANGED <<md, s3, valid_for, now, agreements, pid, req, issued>>

\* The protocol binding takes the SP snapshot.
SPSnapshot ==
    /\ LET r == as_idpspconfig_dict(sp) IN
        lastCall' = Call("sp_snapshot", 0, r.raised, NoError, r.value)
    /\ UNCHANGED <<sp, md, s3, valid_for, now, agreements, loaded, pid, req, issued, spFailed>>

\* One validate() in flight at a time, among the administrator's writes and
\* the snapshots.
NextSP ==
    \/ \E e \in SpIds, p \in Processors, m \in MappingTexts : SPCreate(e, p, m)
    \/ \E e \in SpIds, p \in Processors : SPEditProcessor(e, p)
    \/ \E e \in SpIds, m \in MappingTexts : SPEditMapping(e, m)
    \/ \E e \in SpIds, a \in BOOLEAN : SPSetActive(e, a)
    \/ \E e \in SpIds : SPLoad("v1", e)
    \/ \E inMetadata \in BOOLEAN : SPValidate("v1", inMetadata)
    \/ SPSnapshot

\* Two validate() calls in flight, and the administrator's is_active.
NextRace ==
    \/ \E e \in SpIds : SPCreate(e, DEFAULT_PROCESSOR, MappingOk)
    \/ \E e \in SpIds, a \in BOOLEAN : SPSetActive(e, a)
    \/ \E v \in Validators, e \in SpIds : SPLoad(v, e)
    \/ \E v \in Validators, inMetadata \in BOOLEAN : SPValidate(v, inMetadata)

\* ========================================================= MetadataStore
MDStype == {"remote", "mdq", "local"}
NoUrl == ""
SomeUrl == "https://md.example.org"
Urls == {NoUrl, SomeUrl}
NoFile == ""
SomeFile == "metadata/sp_metadata.xml"
Files == {NoFile, SomeFile}
KwargsTexts == {KwargsDefault, KwargsSsl, KwargsMalformed, KwargsList}

\* What the endpoint answers to requests.get / requests.head.
HttpOutcomes == {"200", "404", "exception"}

\* A new row: is_valid and is_active take their defaults.
MetadataStore_new(type, url, file, kwargs) ==
    [type |-> type, url |-> url, file |-> file, kwargs |-> kwargs,
     is_valid |-> FALSE, is_active |-> FALSE]

\* requests.get(self.url) / requests.head(self.url + '/entities/'): a
\* missing url makes the request raise before anything is sent.
md_request(self, http) == IF self.url = NoUrl THEN "exception" ELSE http

\* validate(), types mdq and remote: a status other than 200 is logged and
\* clears is_active; only an exception sets error.
md_check_endpoint(st, http) ==
    LET r == md_request(st.self, http) IN
    CASE r = "exception" ->
            [st EXCEPT !.error = UnreachableError,
                       !.self.is_active = FALSE]
      [] r = "200" -> st
      [] OTHER -> [st EXCEPT !.self.is_active = FALSE]

\* Mutant: the empty local source is not refused.
md_check_local_mutant_accepts_empty(st, xmlOk) ==
    IF (st.self.file # NoFile \/ st.self.url # NoUrl) /\ ~xmlOk
    THEN [st EXCEPT !.error = InvalidXmlError, !.self.is_active = FALSE]
    ELSE st

\* validate(), type local: the attached file and the files of the directory
\* are parsed; then the empty source is refused.
md_check_local(st, xmlOk) ==
    LET parsed ==
            IF (st.self.file # NoFile \/ st.self.url # NoUrl) /\ ~xmlOk
            THEN [st EXCEPT !.error = InvalidXmlError,
                            !.self.is_active = FALSE]
            ELSE st
    IN  IF ~(st.self.url # NoUrl \/ st.self.file # NoFile)
        THEN [parsed EXCEPT
                !.error = EmptySourceError,
                !.self.is_active = FALSE]
        ELSE parsed

\* Mutant: kwargs is parsed only when the type's own check failed.
md_check_kwargs_mutant_skipped_on_success(st) ==
    IF st.error = NoError \/ json_loads(st.self.kwargs).ok
    THEN st
    ELSE [st EXCEPT !.error = KwargsError,
                    !.self.is_active = FALSE]

\* validate(), every type: kwargs parses.
md_check_kwargs(st) ==
    IF json_loads(st.self.kwargs).ok
    THEN st
    ELSE [st EXCEPT !.error = KwargsError,
                    !.self.is_active = FALSE]

\* validate(), after the checks: what is saved, and what is raised.
md_finish(st) ==
    IF st.error # NoError
    THEN [st EXCEPT !.self.is_valid = st.self.is_active]
    ELSE [st EXCEPT !.self.is_valid = TRUE]

\* MetadataStore.validate(): the row it saves and the error it raises
\* (NoError: it returns is_valid).
MetadataStore_validate(self, http, xmlOk) ==
    LET st0 == [self |-> self, error |-> NoError]
        st1 == IF self.type \in {"mdq", "remote"}
               THEN md_check_endpoint(st0, http)
               ELSE md_check_local(st0, xmlOk)
    IN  md_finish(md_check_kwargs(st1))

\* The checks of MetadataStore.validate(), as the claims name them.
md_kind_check_passes(self, http, xmlOk) ==
    IF self.type \in {"mdq", "remote"}
    THEN self.url # NoUrl /\ http = "200"
    ELSE (self.file # NoFile \/ self.url # NoUrl) /\ xmlOk

md_checks_pass(self, http, xmlOk) ==
    md_kind_check_passes(self, http, xmlOk) /\ json_loads(self.kwargs).ok

\* FieldFile.path and FieldFile.url of an attached file.
file_path(name) == "/srv/media/" \o name
\* FieldFile.url is what the storage backend answers: on S3Boto3Storage a
\* url signed for the time of the call.
Signatures == {"sig-a", "sig-b"}
file_url(name, signature) ==
    "https://bucket.s3.amazonaws.com/" \o name \o "?X-Amz-Signature=" \o signature

\* dict.update
dict_update(d, other) ==
    [k \in DOMAIN d \cup DOMAIN other |-> IF k \in DOMAIN other THEN other[k] ELSE d[k]]

Raised == [raised |-> TRUE, isdict |-> FALSE, value |-> <<>>]
Row(isdict, value) == [raised |-> FALSE, isdict |-> isdict, value |-> value]

\* as_pysaml2_mdstore_row(): the descriptor of one source.  It raises when
\* kwargs does not parse, when the path of a file kept on object storage is
\* asked for, and when the url of a missing file is asked for.
as_pysaml2_mdstore_row(self, onS3, signature) ==
    IF self.type \in {"remote", "mdq"}
    THEN LET d0 == [url |-> self.url]
             k == json_loads(self.kwargs)
         IN  IF self.file # NoFile /\ onS3 THEN Raised
             ELSE IF self.kwargs # "" /\ ~(k.ok /\ k.isdict) THEN Raised
             ELSE LET d1 == IF self.file # NoFile
                            THEN dict_update(d0, [cert |-> file_path(self.file)])
                            ELSE d0
                  IN  Row(TRUE, IF self.kwargs # "" THEN dict_update(d1, k.val) ELSE d1)
    ELSE IF onS3
         THEN IF self.file = NoFile THEN Raised
              ELSE Row(TRUE, [url |-> file_url(self.file, signature)])
         ELSE Row(FALSE, IF self.file = NoFile THEN self.url ELSE file_path(self.file))

\* Mutant: the query filters on is_active alone.
md_filter_mutant_active_only(table) ==
    {m \in DOMAIN table : table[m].is_active}

\* The rows cls.objects.filter(is_active=True, is_valid=True) yields.
md_filter_active_valid(table) ==
    {m \in DOMAIN table : table[m].is_active /\ table[m].is_valid}

\* The key a source is appended under: its type, overwritten with "remote"
\* when its descriptor is a dict with a "url" key.
md_group_key(self, onS3, signature) ==
    LET value == as_pysaml2_mdstore_row(self, onS3, signature) IN
    IF value.isdict /\ "url" \in DOMAIN value.value THEN "remote" ELSE self.type

\* as_pysaml_mdstore_dict(): the sources in primary-key order, grouped.
as_pysaml_mdstore_dict(table, onS3, signature) ==
    LET stores == md_filter_active_valid(table)
        order == [i \in 1..MaxMD |-> i]
        under(key) == SelectSeq(order,
                        LAMBDA m : m \in stores /\ md_group_key(table[m], onS3, signature) = key)
        keys == {md_group_key(table[m], onS3, signature) : m \in stores}
    IN  IF \E m \in stores : as_pysaml2_mdstore_row(table[m], onS3, signature).raised
        THEN [raised |-> TRUE, value |-> <<>>]
        ELSE [raised |-> FALSE,
              value |-> [key \in keys |->
                          [i \in 1..Len(under(key)) |->
                             as_pysaml2_mdstore_row(table[under(key)[i]], onS3, signature).value]]]

\* as_pysaml_mdstore_dict(): the table after the call.  store.type is
\* overwritten on the instance the query returned, and no save() follows.
md_snapshot_persisted(table, onS3) == table

\* --------------------------------------------------- MetadataStore actions
\* An administrator adds a metadata source.
MDCreate(m, type, url, file, kwargs) ==
    /\ m \notin DOMAIN md
    /\ md' = [x \in DOMAIN md \cup {m} |->
                IF x = m THEN MetadataStore_new(type, url, file, kwargs) ELSE md[x]]
    /\ lastCall' = Call("md_admin", 0, FALSE, NoError, <<>>)
    /\ UNCHANGED <<sp, s3, valid_for, now, agreements, loaded, pid, req, issued, spFailed>>

\* An administrator changes the type, the url, the file or kwargs.
\* is_valid is written by validate() only.
MDEditType(m, type) ==
    /\ m \in DOMAIN md
    /\ md[m].type # type
    /\ md' = [md EXCEPT ![m].type = type]
    /\ lastCall' = Call("md_admin", 0, FALSE, NoError, <<>>)
    /\ UNCHANGED <<sp, s3, valid_for, now, agreements, loaded, pid, req, issued, spFailed>>

MDEditUrl(m, url) ==
    /\ m \in DOMAIN md
    /\ md[m].url # url
    /\ md' = [md EXCEPT ![m].url = url]
    /\ lastCall' = Call("md_admin", 0, FALSE, NoError, <<>>)
    /\ UNCHANGED <<sp, s3, valid_for, now, agreements, loaded, pid, req, issued, spFailed>>

MDEditFile(m, file) ==
    /\ m \in DOMAIN md
    /\ md[m].file # file
    /\ md' = [md EXCEPT ![m].file = file]
    /\ lastCall' = Call("md_admin", 0, FALSE, NoError, <<>>)
    /\ UNCHANGED <<sp, s3, valid_for, now, agreements, loaded, pid, req, issued, spFailed>>

MDEditKwargs(m, kwargs) ==
    /\ m \in DOMAIN md
    /\ md[m].kwargs # kwargs
    /\ md' = [md EXCEPT ![m].kwargs = kwargs]
    /\ lastCall' = Call("md_admin", 0, FALSE, NoError, <<>>)
    /\ UNCHANGED <<sp, s3, valid_for, now, agreements, loaded, pid, req, issued, spFailed>>

MDSetActive(m, active) ==
    /\ m \in DOMAIN md
    /\ md[m].is_active # active
    /\ md' = [md EXCEPT ![m].is_active = active]
    /\ lastCall' = Call("md_admin", 0, FALSE, NoError, <<>>)
    /\ UNCHANGED <<sp, s3, valid_for, now, agreements, loaded, pid, req, issued, spFailed>>

\* Caller v loads row m.
MDLoad(v, m) ==
    /\ v \notin DOMAIN loaded
    /\ m \in DOMAIN md
    /\ loaded' = [x \in DOMAIN loaded \cup {v} |->
                    IF x = v THEN [kind |-> "md", id |-> m, self |-> md[m]]
                    ELSE loaded[x]]
    /\ UNCHANGED <<sp, md, s3, valid_for, now, agreements, pid, req, issued, spFailed,
                   lastCall>>

\* validate() on the instance v holds: the checks, then save() of the whole
\* instance over the persisted row.  The outcome validate() never asks for
\* (the XML of an endpoint, the HTTP answer of a local source) is fixed.
MDValidate(v, http, xmlOk) ==
    /\ v \in DOMAIN loaded
    /\ loaded[v].kind = "md"
    /\ IF loaded[v].self.type \in {"mdq", "remote"} THEN xmlOk ELSE http = "200"
    /\ LET m == loaded[v].id
           r == MetadataStore_validate(loaded[v].self, http, xmlOk)
       IN  /\ md' = [md EXCEPT ![m] = r.self]
           /\ lastCall' = CallWith("md_validate", m, <<http, xmlOk>>,
                                   r.error # NoError, r.error, validate_value(r))
    /\ loaded' = [x \in DOMAIN loaded \ {v} |-> loaded[x]]
    /\ UNCHANGED <<sp, s3, valid_for, now, agreements, pid, req, issued, spFailed>>

\* The protocol binding takes the metadata snapshot.
MDSnapshot(signature) ==
    /\ LET r == as_pysaml_mdstore_dict(md, s3, signature) IN
        lastCall' = CallWith("md_snapshot", 0, <<signature>>, r.raised, NoError, r.value)
    /\ md' = md_snapshot_persisted(md, s3)
    /\ UNCHANGED <<sp, s3, valid_for, now, agreements, loaded, pid, req, issued, spFailed>>

\* One validate() in flight at a time, among the administrator's writes and
\* the snapshots.
NextMD ==
    \/ \E m \in MdIds, t \in MDStype, u \in Urls, f \in Files, k \in KwargsTexts :
            MDCreate(m, t, u, f, k)
    \/ \E m \in MdIds, t \in MDStype : MDEditType(m, t)
    \/ \E m \in MdIds, u \in Urls : MDEditUrl(m, u)
    \/ \E m \in MdIds, f \in Files : MDEditFile(m, f)
    \/ \E m \in MdIds, k \in KwargsTexts : MDEditKwargs(m, k)
    \/ \E m \in MdIds, a \in BOOLEAN : MDSetActive(m, a)
    \/ \E m \in MdIds : MDLoad("v1", m)
    \/ \E h \in HttpOutcomes, x \in BOOLEAN : MDValidate("v1", h, x)
    \/ \E signature \in Signatures : MDSnapshot(signature)

\* ========================================================== PersistentId
\* The pseudonym allocator asks for (user, sp) identifiers.  The claims are
\* about two users and two concurrent requests.
Users == {"alice", "bob"}
Requests == {"A", "B"}
\* uuid.uuid4() draws from a space this small, so that collisions happen.
MaxUuid == 2
Uuids == 1..MaxUuid
\* Service providers pseudonyms are asked for.
MaxPidSP == 1
PidSps == 1..MaxPidSP
\* Inserts one request tries before it gives up with a storage error.
RetryBound == 2

PersistentId_new(s, user, uuid4) == [sp |-> s, user |-> user, persistent_id |-> uuid4]

\* Mutant: the constraint is not declared.
unique_ids_per_sp_off(rows, row) == TRUE

\* UniqueConstraint(fields=["sp", "persistent_id"], name="unique_ids_per_sp")
unique_ids_per_sp(rows, row) ==
    \A r \in rows : ~(r.sp = row.sp /\ r.persistent_id = row.persistent_id)

\* Mutant: the constraint is not declared.
unique_users_per_sp_off(rows, row) == TRUE

\* UniqueConstraint(fields=["sp", "user"], name="unique_users_per_sp")
unique_users_per_sp(rows, row) ==
    \A r \in rows : ~(r.sp = row.sp /\ r.user = row.user)

\* The insert of row is accepted by the table's constraints.
insert_ok(rows, row) == unique_ids_per_sp(rows, row) /\ unique_users_per_sp(rows, row)

\* The rows a lookup of (sp, user) finds.
rows_of(rows, s, user) == {r \in rows : r.sp = s /\ r.user = user}

Idle == [pc |-> "idle", user |-> "", sp |-> 0, attempts |-> 0]

\* getOrCreate(user, sp) is called.  In lastCall, id is the number of
\* conflicts the request met before it returned.
PidBegin(q, user, s) ==
    /\ req[q].pc = "idle"
    /\ s \in DOMAIN sp
    /\ req' = [req EXCEPT ![q] = [pc |-> "lookup", user |-> user, sp |-> s, attempts |-> 0]]
    /\ lastCall' = Call("get_or_create_begin", 0, FALSE, NoError, <<>>)
    /\ UNCHANGED <<sp, md, s3, valid_for, now, agreements, loaded, pid, issued, spFailed>>

\* The request reads the (sp, user) row: it returns the identifier found,
\* goes on to insert, or gives up after RetryBound conflicts.
PidLookup(q) ==
    /\ req[q].pc = "lookup"
    /\ LET found == rows_of(pid, req[q].sp, req[q].user) IN
        IF found # {}
        THEN \E r \in found :
                /\ req' = [req EXCEPT ![q] = Idle]
                /\ issued' = issued \cup {<<r.user, r.sp, r.persistent_id>>}
                /\ lastCall' = Call("get_or_create_found", req[q].attempts, FALSE, NoError, r)
        ELSE IF req[q].attempts >= RetryBound
        THEN /\ req' = [req EXCEPT ![q] = Idle]
             /\ lastCall' = Call("get_or_create_failed", req[q].attempts, TRUE,
                                  "IntegrityError", <<>>)
             /\ UNCHANGED issued
        ELSE /\ req' = [req EXCEPT ![q].pc = "insert"]
             /\ lastCall' = Call("get_or_create_miss", 0, FALSE, NoError, <<>>)
             /\ UNCHANGED issued
    /\ UNCHANGED <<sp, md, s3, valid_for, now, agreements, loaded, pid, spFailed>>

\* The request inserts a row with a fresh uuid4: the insert is accepted and
\* its identifier returned, or a constraint refuses it and the request goes
\* back to read.
PidInsert(q, uuid4) ==
    /\ req[q].pc = "insert"
    /\ LET row == PersistentId_new(req[q].sp, req[q].user, uuid4) IN
        IF insert_ok(pid, row)
        THEN /\ pid' = pid \cup {row}
             /\ req' = [req EXCEPT ![q] = Idle]
             /\ issued' = issued \cup {<<row.user, row.sp, row.persistent_id>>}
             /\ lastCall' = Call("get_or_create_created", req[q].attempts, FALSE, NoError, row)
        ELSE /\ req' = [req EXCEPT ![q].pc = "lookup", ![q].attempts = @ + 1]
             /\ lastCall' = Call("get_or_create_conflict", 0, FALSE, NoError, <<>>)
             /\ UNCHANGED <<pid, issued>>
    /\ UNCHANGED <<sp, md, s3, valid_for, now, agreements, loaded, spFailed>>

NextPid ==
    \/ \E q \in Requests, u \in Users, s \in PidSps : PidBegin(q, u, s)
    \/ \E q \in Requests : PidLookup(q)
    \/ \E q \in Requests, v \in Uuids : PidInsert(q, v)

\* ======================================================= AgreementRecord
MaxHours == 26
MaxAgreements == 1

ValidForHours == {-1, 0, 1, 24}
ValidForSettings == {Unset, None} \cup {Hours(h) : h \in ValidForHours}

\* A text is the sequence of its pieces; "," is the piece split() cuts at.
\* The stored attrs texts: "", "email", "email,", "email,name".
AttrsTexts == {<<>>, <<"email">>, <<"email", ",">>, <<"email", ",", "name">>}
\* The attribute lists a login request asks for.
RequestedAttrs == {<<>>, <<"email">>, <<"name">>, <<"email", "name">>}

Range(s) == {s[i] : i \in DOMAIN s}

\* str.split(","): the pieces between the commas, "" included.
RECURSIVE str_split_from(_, _, _)
str_split_from(s, i, piece) ==
    IF i > Len(s) THEN <<piece>>
    ELSE IF s[i] = "," THEN <<piece>> \o str_split_from(s, i + 1, "")
    ELSE str_split_from(s, i + 1, piece \o s[i])

str_split(s) == str_split_from(s, 1, "")

\* A new record: created is set by auto_now_add.
AgreementRecord_new(attrs, created) == [attrs |-> attrs, created |-> created]

\* is_expired(): getattr() without a default raises AttributeError for a
\* setting that is not defined; "not valid_for" holds for None and for 0.
is_expired(self, setting, t) ==
    IF setting.kind = "unset"
    THEN [raised |-> TRUE, value |-> FALSE]
    ELSE IF setting.kind = "None" \/ setting.hours = 0
    THEN [raised |-> FALSE, value |-> FALSE]
    ELSE [raised |-> FALSE, value |-> t > self.created + setting.hours]

\* Mutant: what is stored and not asked for.
wants_more_attrs_mutant_reversed(self, newAttrs) ==
    (Range(str_split(self.attrs)) \ Range(newAttrs)) # {}

\* wants_more_attrs(): bool(set(newAttrs).difference(self.attrs.split(","))).
wants_more_attrs(self, newAttrs) ==
    (Range(newAttrs) \ Range(str_split(self.attrs))) # {}

\* ------------------------------------------------- AgreementRecord actions
\* An hour passes.
Tick ==
    /\ now < MaxHours
    /\ now' = now + 1
    /\ lastCall' = Call("tick", 0, FALSE, NoError, <<>>)
    /\ UNCHANGED <<sp, md, s3, valid_for, agreements, loaded, pid, req, issued, spFailed>>

\* A user agrees to the release of attrs.
AgreementCreate(attrs) ==
    /\ Len(agreements) < MaxAgreements
    /\ agreements' = Append(agreements, AgreementRecord_new(attrs, now))
    /\ lastCall' = Call("agreement_create", Len(agreements) + 1, FALSE, NoError, <<>>)
    /\ UNCHANGED <<sp, md, s3, valid_for, now, loaded, pid, req, issued, spFailed>>

IsExpired(a) ==
    /\ a \in DOMAIN agreements
    /\ LET r == is_expired(agreements[a], valid_for, now) IN
        lastCall' = Call("is_expired", a, r.raised, NoError, r.value)
    /\ UNCHANGED <<sp, md, s3, valid_for, now, agreements, loaded, pid, req, issued, spFailed>>

WantsMoreAttrs(a, newAttrs) ==
    /\ a \in DOMAIN agreements
    /\ lastCall' = CallWith("wants_more_attrs", a, <<newAttrs>>, FALSE, NoError,
                            wants_more_attrs(agreements[a], newAttrs))
    /\ UNCHANGED <<sp, md, s3, valid_for, now, agreements, loaded, pid, req, issued, spFailed>>

\* is_expired() reads created and the clock, wants_more_attrs() reads attrs:
\* the clock runs where expiry is asked, the stored text varies where the
\* attributes are compared.
NextExpiry ==
    \/ Tick
    \/ AgreementCreate(<<"email">>)
    \/ \E a \in 1..MaxAgreements : IsExpired(a)

NextConsent ==
    \/ \E attrs \in AttrsTexts : AgreementCreate(attrs)
    \/ \E a \in 1..MaxAgreements, newAttrs \in RequestedAttrs : WantsMoreAttrs(a, newAttrs)

Init ==
    /\ sp = <<>>
    /\ md = <<>>
    /\ s3 \in BOOLEAN
    /\ pid = {}
    /\ req = [q \in Requests |-> Idle]
    /\ issued = {}
    /\ spFailed = {}
    /\ valid_for = Unset
    /\ now = 0
    /\ agreements = <<>>
    /\ loaded = <<>>
    /\ lastCall = Call("init", 0, FALSE, NoError, <<>>)

SpecSP == Init /\ [][NextSP]_vars
SpecMD == Init /\ [][NextMD]_vars

\* Both tables, for the claims that speak of both.  The tables share no
\* state and no operation reads one to write the other, so each is explored
\* from the state in which the other is still empty.
NextTables ==
    \/ md = <<>> /\ NextSP
    \/ sp = <<>> /\ NextMD

SpecTables == Init /\ [][NextTables]_vars
SpecRace == Init /\ [][NextRace]_vars

\* The allocator runs against service providers an administrator created.
InitPid ==
    /\ sp = [e \in PidSps |-> ServiceProvider_new(DEFAULT_PROCESSOR, MappingOk)]
    /\ md = <<>>
    /\ s3 \in BOOLEAN
    /\ pid = {}
    /\ req = [q \in Requests |-> Idle]
    /\ issued = {}
    /\ spFailed = {}
    /\ valid_for = Unset
    /\ now = 0
    /\ agreements = <<>>
    /\ loaded = <<>>
    /\ lastCall = Call("init", 0, FALSE, NoError, <<>>)

SpecPid == InitPid /\ [][NextPid]_vars

\* The agreement records, under each value the setting can have.
InitConsent ==
    /\ sp = <<>>
    /\ md = <<>>
    /\ s3 = FALSE
    /\ pid = {}
    /\ req = [q \in Requests |-> Idle]
    /\ issued = {}
    /\ spFailed = {}
    /\ valid_for \in ValidForSettings
    /\ now = 0
    /\ agreements = <<>>
    /\ loaded = <<>>
    /\ lastCall = Call("init", 0, FALSE, NoError, <<>>)

SpecExpiry == InitConsent /\ [][NextExpiry]_vars
SpecConsent == InitConsent /\ [][NextConsent]_vars

Next == NextSP \/ NextMD \/ NextPid \/ NextExpiry \/ NextConsent \/ NextRace
Spec == Init /\ [][Next]_vars
\* ================================================================ claims

\* C1 (as claimed): in every persisted state reachable by creation,
\* administrator edits and validate() calls, every ServiceProvider row with
\* is_active = TRUE has is_valid = TRUE.
C1_ActiveImpliesValid ==
    \A e \in DOMAIN sp : sp[e].is_active => sp[e].is_valid

\* C2 (as claimed): a service provider whose most recent validate() had a
\* failing check is in no snapshot as_idpspconfig_dict() returns, whatever
\* the administrator edited since.
C2_FailedAbsentFromSnapshot ==
    \A e \in spFailed :
        LET snapshot == as_idpspconfig_dict(sp) IN
        ~snapshot.raised => e \notin DOMAIN snapshot.value

\* C3: a ServiceProvider.validate() in which at least one of the three
\* checks fails saves is_active = FALSE and is_valid = FALSE, whatever the
\* flags were, and raises an error.
C3_FailingValidateInvalidates ==
    [][\A v \in Validators, inMetadata \in BOOLEAN :
        (/\ lastCall'.op = "sp_validate"
         /\ SPValidate(v, inMetadata)
         /\ ~sp_checks_pass(loaded[v].self, inMetadata))
            => /\ ~sp'[loaded[v].id].is_active
               /\ ~sp'[loaded[v].id].is_valid
               /\ lastCall'.raised
               /\ lastCall'.error # NoError]_vars

\* C3 witness: a validate() with a failing check has just raised, and the
\* row it saved is inactive and invalid.
C3_Witness ==
    /\ lastCall.op = "sp_validate"
    /\ lastCall.raised
    /\ lastCall.id \in spFailed
    /\ ~sp[lastCall.id].is_valid
    /\ ~sp[lastCall.id].is_active

\* C4 (as claimed): a ServiceProvider.validate() in which all three checks
\* pass saves is_valid = TRUE and is_active as it was when the call began,
\* and returns; no validate() turns the persisted is_active from FALSE to
\* TRUE.
C4_PassingValidateKeepsActive ==
    [][\A v \in Validators, inMetadata \in BOOLEAN :
        (lastCall'.op = "sp_validate" /\ SPValidate(v, inMetadata))
            => /\ sp_checks_pass(loaded[v].self, inMetadata)
                    => /\ sp'[loaded[v].id].is_valid
                       /\ sp'[loaded[v].id].is_active = loaded[v].self.is_active
                       /\ ~lastCall'.raised
               /\ ~(~sp[loaded[v].id].is_active /\ sp'[loaded[v].id].is_active)]_vars
\* C5 (as claimed): a MetadataStore.validate() of a remote or mdq source
\* whose request raises or answers another status than 200 saves
\* is_valid = FALSE and is_active = FALSE and raises an error; is_valid is
\* saved TRUE only when every check passed.
C5_UnreachableEndpointInvalidates ==
    [][\A v \in Validators, http \in HttpOutcomes, xmlOk \in BOOLEAN :
        (lastCall'.op = "md_validate" /\ MDValidate(v, http, xmlOk))
            => LET self == loaded[v].self
                   m == loaded[v].id
               IN  /\ (self.type \in {"remote", "mdq"}
                            /\ ~md_kind_check_passes(self, http, xmlOk))
                        => /\ ~md'[m].is_valid
                           /\ ~md'[m].is_active
                           /\ lastCall'.raised
                   /\ md'[m].is_valid => md_checks_pass(self, http, xmlOk)]_vars

\* C6 (as claimed): a MetadataStore.validate() of a local source with
\* neither url nor file raises the empty-source error, whatever kwargs is,
\* and saves is_active = FALSE.
C6_EmptyLocalReportsEmptySource ==
    [][\A v \in Validators, http \in HttpOutcomes, xmlOk \in BOOLEAN :
        (/\ lastCall'.op = "md_validate"
         /\ MDValidate(v, http, xmlOk)
         /\ loaded[v].self.type = "local"
         /\ loaded[v].self.url = NoUrl
         /\ loaded[v].self.file = NoFile)
            => /\ lastCall'.raised
               /\ lastCall'.error = EmptySourceError
               /\ ~md'[loaded[v].id].is_active]_vars

\* C6 (amended): a MetadataStore.validate() of a local source with neither
\* url nor file always raises and saves is_active = FALSE and
\* is_valid = FALSE; the error it raises is the empty-source error when
\* kwargs parses and the kwargs format error when kwargs does not parse.
C6_EmptyLocalAlwaysFails ==
    [][\A v \in Validators, http \in HttpOutcomes, xmlOk \in BOOLEAN :
        (/\ lastCall'.op = "md_validate"
         /\ MDValidate(v, http, xmlOk)
         /\ loaded[v].self.type = "local"
         /\ loaded[v].self.url = NoUrl
         /\ loaded[v].self.file = NoFile)
            => /\ lastCall'.raised
               /\ lastCall'.error = IF json_loads(loaded[v].self.kwargs).ok
                                    THEN EmptySourceError ELSE KwargsError
               /\ ~md'[loaded[v].id].is_active
               /\ ~md'[loaded[v].id].is_valid]_vars

\* C6 witness: validate() has just raised the empty-source error on a local
\* source with neither url nor file whose kwargs parses (to a list), saved
\* inactive.
C6_Witness ==
    /\ lastCall.op = "md_validate"
    /\ lastCall.raised
    /\ lastCall.error = EmptySourceError
    /\ md[lastCall.id].kwargs = KwargsList
    /\ md[lastCall.id].type = "local"
    /\ md[lastCall.id].url = NoUrl
    /\ md[lastCall.id].file = NoFile
    /\ ~md[lastCall.id].is_active

\* C7 (as claimed): a snapshot never raises, and holds every entry that
\* passes the activity/validity gate and whose own projection does not fail.
C7_SnapshotsIsolateEntries ==
    /\ lastCall.op = "sp_snapshot"
        => /\ ~lastCall.raised
           /\ \A e \in sp_filter_active(sp) :
                ~as_idpspconfig_dict_element(sp[e]).raised
                    => e \in DOMAIN lastCall.value
    /\ lastCall.op = "md_snapshot"
        => /\ ~lastCall.raised
           /\ \A m \in md_filter_active_valid(md) :
                ~as_pysaml2_mdstore_row(md[m], s3, lastCall.args[1]).raised
                    => md_group_key(md[m], s3, lastCall.args[1]) \in DOMAIN lastCall.value

\* C8 (as claimed): in the metadata snapshot every included source is listed
\* under its declared kind, except the local sources served from object
\* storage, which are listed under "remote".
C8_GroupedByDeclaredKind ==
    (lastCall.op = "md_snapshot" /\ ~lastCall.raised)
        => \A kind \in MDStype :
            LET expected(m) == IF md[m].type = "local" /\ s3
                               THEN "remote" ELSE md[m].type
                n == Cardinality({m \in md_filter_active_valid(md) :
                                    expected(m) = kind})
            IN  IF n = 0
                THEN kind \notin DOMAIN lastCall.value
                ELSE /\ kind \in DOMAIN lastCall.value
                     /\ Len(lastCall.value[kind]) = n
\* C9: the PersistentId table holds at most one row per (sp, user) and at
\* most one per (sp, persistent_id); all identifiers returned for the same
\* (user, sp) are equal, and identifiers returned for two users at the same
\* service provider differ.
C9_StableUniqueIdentifiers ==
    /\ \A r1, r2 \in pid :
        (r1.sp = r2.sp /\ r1.user = r2.user) => r1 = r2
    /\ \A r1, r2 \in pid :
        (r1.sp = r2.sp /\ r1.persistent_id = r2.persistent_id) => r1 = r2
    /\ \A i1, i2 \in issued :
        (i1[1] = i2[1] /\ i1[2] = i2[2]) => i1[3] = i2[3]
    /\ \A i1, i2 \in issued :
        (i1[2] = i2[2] /\ i1[1] # i2[1]) => i1[3] # i2[3]

\* C9 witness: a call has just returned the identifier an earlier call
\* created, and both users hold an identifier at that service provider.
C9_Witness ==
    /\ lastCall.op = "get_or_create_found"
    /\ lastCall.id = 0
    /\ \A u \in Users : \E i \in issued : i[1] = u /\ i[2] = lastCall.value.sp

\* C10: an insert for a (user, sp) that already has a row is refused and
\* the request reads again; an insert refused by either constraint counts
\* one conflict, and a request that met RetryBound conflicts and still finds
\* no row ends with a storage error; every identifier a request returns is
\* that of the one row of its (user, sp).
C10_ConcurrentAllocation ==
    [][\A q \in Requests :
        LET mine == rows_of(pid, req[q].sp, req[q].user)
            mineAfter == rows_of(pid', req[q].sp, req[q].user)
        IN
        /\ (req[q].pc = "insert" /\ req'[q] # req[q])
            => /\ mine # {} => (pid' = pid /\ req'[q].pc = "lookup")
               /\ pid' = pid
                    => /\ req'[q].pc = "lookup"
                       /\ req'[q].attempts = req[q].attempts + 1
                       /\ req'[q].attempts <= RetryBound
               /\ pid' # pid
                    => /\ lastCall'.op = "get_or_create_created"
                       /\ mineAfter = {lastCall'.value}
                       /\ pid' = pid \cup mineAfter
        /\ (req[q].pc = "lookup" /\ req'[q] # req[q])
            => /\ pid' = pid
               /\ mine # {}
                    => /\ lastCall'.op = "get_or_create_found"
                       /\ mine = {lastCall'.value}
               /\ (mine = {} /\ req[q].attempts >= RetryBound)
                    => /\ lastCall'.op = "get_or_create_failed"
                       /\ lastCall'.raised
               /\ (mine = {} /\ req[q].attempts < RetryBound)
                    => req'[q].pc = "insert"]_vars

\* C10 witness: a request that lost the insert race has read again and
\* returned the row the other request inserted.
C10_Witness ==
    /\ lastCall.op = "get_or_create_found"
    /\ lastCall.id >= 1
    /\ lastCall.value \in pid
\* C11 (as claimed): is_expired() returns FALSE for every record age when
\* the validity window is unset, zero or negative, and for a positive window
\* of V hours returns TRUE exactly when now > created + V.
C11_ExpiryWindow ==
    lastCall.op = "is_expired" =>
        LET r == agreements[lastCall.id] IN
        /\ ~lastCall.raised
        /\ lastCall.value = (/\ valid_for.kind = "hours"
                             /\ valid_for.hours > 0
                             /\ now > r.created + valid_for.hours)

\* C12 (as claimed): as_idpspconfig_dict() returns a mapping whose keys are
\* exactly the entity ids of the rows with is_active = TRUE, whatever their
\* is_valid.
C12_SnapshotKeysAreActive ==
    lastCall.op = "sp_snapshot" =>
        /\ ~lastCall.raised
        /\ DOMAIN lastCall.value = {e \in DOMAIN sp : sp[e].is_active}

\* C13: a snapshot as_pysaml_mdstore_dict() returns holds one descriptor for
\* each row with is_active = TRUE and is_valid = TRUE and nothing else: every
\* descriptor in it is the descriptor of such a row, and the rows with either
\* flag FALSE add none.
C13_OnlyActiveAndValid ==
    (lastCall.op = "md_snapshot" /\ ~lastCall.raised) =>
        LET v == lastCall.value
            len(k) == IF k \in DOMAIN v THEN Len(v[k]) ELSE 0
            gated == {m \in DOMAIN md : md[m].is_active /\ md[m].is_valid}
        IN  /\ len("remote") + len("mdq") + len("local") = Cardinality(gated)
            /\ \A k \in DOMAIN v : \A i \in 1..Len(v[k]) :
                    \E m \in gated :
                        /\ md_group_key(md[m], s3, lastCall.args[1]) = k
                        /\ as_pysaml2_mdstore_row(md[m], s3, lastCall.args[1]).value = v[k][i]

\* A returned snapshot that left out a row with is_active = TRUE and
\* is_valid = FALSE.
C13_Witness ==
    /\ lastCall.op = "md_snapshot"
    /\ ~lastCall.raised
    /\ \E m \in DOMAIN md : md[m].is_active /\ ~md[m].is_valid
    /\ lastCall.value = <<>>

\* C14: a validate() of a row that the previous call, a validate() of the
\* same row under the same outside answers, saved and that nothing wrote
\* since (the instance is the persisted row) saves the same
\* (is_valid, is_active) pair and raises the same error, or returns as the
\* first did; for ServiceProvider and for MetadataStore rows.
C14_ValidateIdempotent ==
    [][\A v \in Validators :
        /\ (/\ lastCall'.op = "sp_validate"
            /\ lastCall.op = "sp_validate"
            /\ v \in DOMAIN loaded /\ v \notin DOMAIN loaded'
            /\ loaded[v].id = lastCall.id
            /\ loaded[v].self = sp[lastCall.id]
            /\ lastCall'.args = lastCall.args)
            => /\ sp'[lastCall.id].is_valid = sp[lastCall.id].is_valid
               /\ sp'[lastCall.id].is_active = sp[lastCall.id].is_active
               /\ lastCall'.raised = lastCall.raised
               /\ lastCall'.error = lastCall.error
        /\ (/\ lastCall'.op = "md_validate"
            /\ lastCall.op = "md_validate"
            /\ v \in DOMAIN loaded /\ v \notin DOMAIN loaded'
            /\ loaded[v].id = lastCall.id
            /\ loaded[v].self = md[lastCall.id]
            /\ lastCall'.args = lastCall.args)
            => /\ md'[lastCall.id].is_valid = md[lastCall.id].is_valid
               /\ md'[lastCall.id].is_active = md[lastCall.id].is_active
               /\ lastCall'.raised = lastCall.raised
               /\ lastCall'.error = lastCall.error
      ]_vars

\* A failing validate() has just run on a service provider, the row it saved
\* has been loaded again, and validate() under the same answer leads to the
\* same row and the same error.
C14_Witness ==
    /\ lastCall.op = "sp_validate"
    /\ lastCall.raised
    /\ "v1" \in DOMAIN loaded
    /\ loaded["v1"].id = lastCall.id
    /\ loaded["v1"].self = sp[lastCall.id]
    /\ ENABLED (/\ SPValidate("v1", lastCall.args[1])
                /\ sp' = sp
                /\ lastCall' = lastCall)

\* C15: wants_more_attrs(requested) is TRUE exactly when some requested name
\* is not among the pieces the stored attrs text has between its commas.
C15_WantsMoreIffNotSubset ==
    lastCall.op = "wants_more_attrs" =>
        LET stored == agreements[lastCall.id].attrs
            requested == lastCall.args[1]
            cuts == {0, Len(stored) + 1} \cup {i \in DOMAIN stored : stored[i] = ","}
            \* name is what stands between two neighbouring cuts: nothing,
            \* or one name (the stored texts hold each name as one element)
            isPiece(name) ==
                \E a \in cuts, b \in cuts :
                    /\ a < b
                    /\ \A c \in cuts : ~(a < c /\ c < b)
                    /\ \/ b = a + 1 /\ name = ""
                       \/ b = a + 2 /\ name = stored[a + 1]
        IN  lastCall.value = (\E i \in DOMAIN requested : ~isPiece(requested[i]))

\* Asked for email and name with only email stored: more consent is wanted.
C15_Witness ==
    /\ lastCall.op = "wants_more_attrs"
    /\ agreements[lastCall.id].attrs = <<"email">>
    /\ lastCall.args[1] = <<"email", "name">>
    /\ lastCall.value = TRUE

\* C16: ServiceProvider.validate() raises the message of the last check
\* that failed in the order processor, attribute mapping, metadata presence,
\* for every subset of failing checks, and returns when none failed.
C16_LastFailureReported ==
    lastCall.op = "sp_validate" =>
        LET row == sp[lastCall.id]
            inMetadata == lastCall.args[1]
        IN  /\ lastCall.error =
                    IF ~inMetadata THEN NotInMetadataError
                    ELSE IF ~json_loads(row.attribute_mapping).ok THEN MappingError
                    ELSE IF ~import_string_ok(row.attribute_processor) THEN ProcessorError
                    ELSE NoError
            /\ lastCall.raised = (lastCall.error # NoError)

\* All three checks failed and the metadata message was raised.
C16_Witness ==
    /\ lastCall.op = "sp_validate"
    /\ ~import_string_ok(sp[lastCall.id].attribute_processor)
    /\ ~json_loads(sp[lastCall.id].attribute_mapping).ok
    /\ ~lastCall.args[1]
    /\ lastCall.raised
    /\ lastCall.error = NotInMetadataError

\* C17: MetadataStore.validate() on a row whose kwargs does not parse raises
\* the kwargs format error and saves is_active = FALSE and is_valid = FALSE,
\* for every type and whatever the type's own check found.
C17_KwargsAlwaysParsed ==
    lastCall.op = "md_validate" =>
        LET row == md[lastCall.id] IN
        ~json_loads(row.kwargs).ok =>
            /\ lastCall.raised
            /\ lastCall.error = KwargsError
            /\ ~row.is_active
            /\ ~row.is_valid

\* The kwargs error was raised on a remote source whose endpoint answered 200.
C17_Witness ==
    /\ lastCall.op = "md_validate"
    /\ md[lastCall.id].type = "remote"
    /\ md[lastCall.id].url # NoUrl
    /\ lastCall.args[1] = "200"
    /\ lastCall.error = KwargsError
    /\ ~md[lastCall.id].is_active
    /\ ~md[lastCall.id].is_valid

\* C18 (as claimed): a validate() that interleaves with an administrator
\* write or another validate() leaves what a serial order would; validate()
\* only ever clears is_active, so the save() of a validate() in flight never
\* turns a persisted is_active = FALSE back to TRUE.
C18_SaveKeepsDeactivation ==
    [][ \A v \in Validators :
            (v \in DOMAIN loaded /\ v \notin DOMAIN loaded') =>
                (~sp[loaded[v].id].is_active => ~sp'[loaded[v].id].is_active)
      ]_vars

\* C19: the row a validate() call has just saved, whether it returned or
\* raised, is never (is_valid = FALSE, is_active = TRUE); for ServiceProvider
\* and for MetadataStore rows, whatever the flags were before the call.
C19_ValidateSavesActiveOnlyIfValid ==
    /\ lastCall.op = "sp_validate" =>
            ~(~sp[lastCall.id].is_valid /\ sp[lastCall.id].is_active)
    /\ lastCall.op = "md_validate" =>
            ~(~md[lastCall.id].is_valid /\ md[lastCall.id].is_active)

\* validate() returned on a service provider that was active, and saved it
\* valid and active.
C19_Witness ==
    /\ lastCall.op = "sp_validate"
    /\ ~lastCall.raised
    /\ sp[lastCall.id].is_active
    /\ sp[lastCall.id].is_valid

\* C20 (as claimed): the snapshot calls write nothing: as_idpspconfig_dict()
\* and as_pysaml_mdstore_dict() leave every field of every persisted row as
\* it was, the type of a regrouped source included, and a snapshot taken
\* right after another, with no write between them, gives the same result.
C20_SnapshotsReadOnly ==
    [][ /\ lastCall'.op \in {"sp_snapshot", "md_snapshot"} =>
            /\ sp' = sp
            /\ md' = md
        /\ (lastCall'.op \in {"sp_snapshot", "md_snapshot"} /\ lastCall.op = lastCall'.op) =>
            /\ lastCall'.raised = lastCall.raised
            /\ lastCall'.value = lastCall.value
      ]_vars

====
